---- MODULE Spec2Model ----
(***************************************************************************)
(* The session multiplexer of the rumax client (src/src/lib.rs) with its   *)
(* authentication helpers (src/src/api/auth.rs): ClientState under the     *)
(* session lock, the pending table, the reader and keepalive tasks of each *)
(* connection, and caller tasks running send_and_wait.  Every action is    *)
(* one lock section (or one lock-free step) of the code; a task's position *)
(* is a stack of send_and_wait frames, because send_frame re-enters        *)
(* connect, which re-enters send_and_wait for the handshake.               *)
(***************************************************************************)
EXTENDS Integers, Sequences, FiniteSets, TLC

\* ---------------------------------------------------------------- bounds
\* A run makes a bounded number of API calls and keepalive ticks (ops) and
\* establishes a bounded number of transports (conns).
NumCallers == 2      \* API calls that can be in flight at once
MaxOps == 2          \* ops of a run that starts from new()
MaxConn == 2         \* conns of a run that starts from new()
LiveOps == 2         \* ops of a run that starts from a live session
LiveConn == 1        \* conns of a run that starts from a live session
LostOps == 2         \* ops of a run that starts after the connection was lost
LostConn == 2        \* conns of a run that starts after the connection was lost
AuthOps == 2         \* ops of a login run
AuthConn == 1        \* conns of a login run
MaxTel == 2          \* telemetry tasks spawned in a run
MaxEvents == 2       \* events one telemetry task builds
TelOps == 1          \* ops of a telemetry run
TelConn == 1         \* conns of a telemetry run
WrapOps == 2         \* ops of a run on a long session
WrapConn == 1        \* conns of a run on a long session
MaxFrames == 3       \* frames written while the lock is watched
MaxRounds == 1       \* frames the reader takes while the locks are watched
MaxBody == 2         \* payload bytes of an inbound frame
MaxSlots == 1 + MaxConn + LiveConn + LostConn + AuthConn + TelConn

\* ------------------------------------------------------ program constants
SeqWidth == 256          \* request.seq as u8: the mobile header keeps 8 bits
HANDSHAKE == 6
PING == 1
DEFAULT_TIMEOUT == 10000 \* Duration::from_millis(10000)
MAX_PAYLOAD == 16777215  \* 0xFFFFFF, the 24 bits of payload_len
Limb == 4194304          \* 2^22: wide integers are kept as three such digits

Callers == {<<"caller", i>> : i \in 1..NumCallers}
Pings == {<<"ping", k>> : k \in 1..MaxSlots}
Tels == {<<"tel", i>> : i \in 1..MaxTel}
Tasks == Callers \cup Pings \cup Tels

NoTok == "none"
NoChan == -1

\* The fields of a payload the code looks at: payload.error, payload.token,
\* payload.tokenType and payload.profile.contact.id.
NoPayload == [error |-> FALSE, token |-> NoTok, tokenType |-> NoTok, uid |-> 0]
Payload(e, t, ty, u) == [error |-> e, token |-> t, tokenType |-> ty, uid |-> u]

\* ClientResult<Response> and the states of a oneshot receiver.
\* ms is the Duration an Error::RequestTimeout carries (0 for the rest).
R(kind, payload) == [kind |-> kind, payload |-> payload, ms |-> 0]
Empty == R("Empty", NoPayload)         \* nothing sent yet
Dropped == R("Dropped", NoPayload)     \* the Sender was dropped unsent

Opcode(api) ==
  CASE api = "start_auth" -> 17
    [] api = "check_code" -> 18
    [] api = "sync" -> 19
    [] api = "submit_register" -> 23
    [] api = "fetch_history" -> 49
    [] api = "handshake" -> HANDSHAKE
    [] api = "ping" -> PING
    [] api = "telemetry" -> 5
    [] OTHER -> 0

VARIABLES
  writer,        \* ClientState.writer: 0 = None, k = the writer of connection k
  seq,           \* ClientState.seq
  temp_token,    \* ClientState.temp_token
  token,         \* ClientState.token
  pending,       \* ClientState.pending: set of [seq, task, depth], one per key
  shutdown_tx,   \* ClientState.shutdown_tx: NoChan = None, else the channel
  user_id,       \* ClientState.user_id: 0 = None
  device_id,     \* ClientState.device_id
  mt_instance,   \* ClientState.mt_instance
  conn,          \* the connections made so far: peer, reader task, keepalive task, wire
  stack,         \* per task: the send_and_wait frames it is inside of
  result,        \* per caller: what its last API call returned
  budget,        \* what this run may still do: [ops, conns]
  events,        \* frames published on event_tx
  epoch,         \* history: number of disconnect() calls so far
  current_screen, \* ClientState.current_screen
  tel,           \* the telemetry tasks spawned so far: position, channel, events built
  codec          \* the transport at work on one job: a request, a frame, an
                 \* integer, tasks writing frames under the session lock,
                 \* or tasks taking the session lock and the pending lock

tel_state == <<current_screen, tel>>

vars == <<writer, seq, temp_token, token, pending, shutdown_tx, user_id,
          device_id, mt_instance, conn, stack, result, budget, events, epoch, tel_state, codec>>

state_fields == <<writer, seq, temp_token, token, pending, shutdown_tx, user_id,
                  device_id, mt_instance>>

\* ----------------------------------------------------------------- frames
\* One send_and_wait call (or, for api = "connect", one connect call made by
\* a caller).  pc is the position inside send_and_wait / send_frame:
\*   alloc    before lock + seq += 1 + pending.insert        (lib.rs 249-263)
\*   check    before send_frame reads state.writer            (lib.rs 214-221)
\*   connect  inside connect, before the transport is up      (lib.rs 101-150)
\*   child    awaiting the handshake's send_and_wait          (lib.rs 187)
\*   write    before the second lock of send_frame            (lib.rs 232-237)
\*   wait     awaiting timeout(rx)                            (lib.rs 267)
\*   timedout Elapsed seen, rx dropped, before pending.remove (lib.rs 281-283)
\*   post     send_and_wait returned Ok, before set_token / set_temp_token
\* nest (history) counts the transports established inside this call.
Frame(api, tok) ==
  [api |-> api, op |-> Opcode(api), seq |-> 0, pc |-> "alloc", rx |-> Empty,
   tok |-> tok, ep |-> 0, nest |-> 0]

Top(t) == stack[t][Len(stack[t])]
AtPc(t, pc) == stack[t] # <<>> /\ Top(t).pc = pc
SetTop(stk, f) == [stk EXCEPT ![Len(stk)] = f]

\* The receiver half of a frame's oneshot channel still exists and is empty.
RxOpen(f) == f.pc \in {"check", "connect", "child", "write", "wait"} /\ f.rx = Empty

Keys(p) == {e.seq : e \in p}

\* sender.send(val) for every entry of `entries`; a send to a receiver that
\* is gone fails and is ignored (let _ = ...).
Complete(stk, entries, val) ==
  [t \in Tasks |->
    [d \in 1..Len(stk[t]) |->
      IF /\ \E e \in entries : e.task = t /\ e.depth = d /\ e.seq = stk[t][d].seq
         /\ RxOpen(stk[t][d])
      THEN [stk[t][d] EXCEPT !.rx = val]
      ELSE stk[t][d]]]

\* ------------------------------------------------------- returning a result
\* send_and_wait maps what the oneshot receiver yields to its result.
Classify(rx) ==
  CASE rx.kind = "Ok" ->
         IF rx.payload.error THEN R("ApiResponse", rx.payload)
         ELSE R("Ok", rx.payload)
    [] rx.kind = "Dropped" -> R("OneshotRecvError", NoPayload)
    [] OTHER -> rx

StoresTokenAnyResult(api, res) ==
  /\ api \in {"start_auth", "check_code", "submit_register"}
  /\ res.payload.token # NoTok

\* start_auth, check_code and submit_register go on to store a token only
\* when send_and_wait(..).await? yielded Ok and payload.token is a string.
StoresToken(api, res) ==
  /\ res.kind = "Ok"
  /\ api \in {"start_auth", "check_code", "submit_register"}
  /\ res.payload.token # NoTok

NoDeviceIdNotConnected == R("NotConnected", NoPayload)

\* The error send_frame returns when there is no writer and no stored ids.
NoDeviceIdError == R("ConnectionFailed", NoPayload)

AfterReconnectAlwaysWrites(res) == TRUE

\* What send_frame does with the result of its inline connect (the `?`):
\* TRUE when it goes on to write its own frame.
AfterReconnectWrites(res) == res.kind = "Ok"

\* A send_and_wait frame returns res to whatever called it.  A handshake
\* frame returns into connect, which returns the same value: into the
\* caller (api = "connect"), or into send_frame, whose `?` either goes on to
\* the write (Ok) or returns the error from the enclosing send_and_wait.
RECURSIVE Unwind(_, _)
Unwind(stk, res) ==
  IF Len(stk) = 1
  THEN IF StoresToken(stk[1].api, res)
       THEN [stk |-> <<[stk[1] EXCEPT !.pc = "post", !.rx = res]>>, fin |-> FALSE]
       ELSE [stk |-> <<>>, fin |-> TRUE]
  ELSE LET rest == SubSeq(stk, 1, Len(stk) - 1)
           parent == rest[Len(rest)]
       IN IF parent.api # "connect" /\ AfterReconnectWrites(res)
          THEN [stk |-> SetTop(rest, [parent EXCEPT !.pc = "write"]), fin |-> FALSE]
          ELSE Unwind(rest, res)

Outcome(api, res) ==
  [api |-> api, kind |-> res.kind, payload |-> res.payload, ms |-> res.ms]

\* Task t's innermost call returns res; base is the stack function after
\* the step's other effects.  A keepalive task whose ping failed breaks out
\* of its loop (lib.rs 355-358).
TaskReturnsFrom(base, t, res) ==
  LET u == Unwind(base[t], res) IN
  /\ stack' = [base EXCEPT ![t] = u.stk]
  /\ result' = IF u.fin /\ t \in Callers
               THEN [result EXCEPT ![t] = Outcome(base[t][1].api, res)]
               ELSE result
  /\ conn' = IF u.fin /\ t[1] = "ping" /\ res.kind # "Ok"
             THEN [conn EXCEPT ![t[2]].ping = "done"]
             ELSE conn

TaskReturns(t, res) == TaskReturnsFrom(stack, t, res)

NextSeqSame(s) == s

\* state.seq += 1
NextSeq(s) == s + 1

\* ------------------------------------------------------------ send_and_wait
\* The first lock section of send_and_wait: seq += 1, pending.insert(seq, tx)
\* (an insert over an existing key drops the Sender that was there).
Alloc(base, t) ==
  LET s == NextSeq(seq)
      old == {e \in pending : e.seq = s}
      f == [base[t][Len(base[t])] EXCEPT !.seq = s, !.pc = "check", !.ep = epoch]
  IN /\ seq' = s
     /\ pending' = (pending \ old) \cup {[seq |-> s, task |-> t, depth |-> Len(base[t])]}
     /\ stack' = [Complete(base, old, Dropped) EXCEPT ![t] = SetTop(@, f)]

send_and_wait_alloc(t) ==
  /\ AtPc(t, "alloc")
  /\ Alloc(stack, t)
  /\ UNCHANGED <<writer, temp_token, token, shutdown_tx, user_id, device_id,
                 mt_instance, conn, result, budget, events, epoch, tel_state, codec>>

send_frame_check(t) ==
  /\ AtPc(t, "check")
  /\ IF writer # 0
     THEN /\ stack' = [stack EXCEPT ![t] = SetTop(@, [Top(t) EXCEPT !.pc = "write"])]
          /\ UNCHANGED <<result, conn>>
     ELSE IF device_id # NoTok /\ mt_instance # NoTok
     THEN /\ stack' = [stack EXCEPT ![t] = SetTop(@, [Top(t) EXCEPT !.pc = "connect"])]
          /\ UNCHANGED <<result, conn>>
     ELSE TaskReturns(t, NoDeviceIdError)
  /\ UNCHANGED <<state_fields, budget, events, epoch, tel_state, codec>>

HandshakeTokenSession(tk) == tk

\* The token in handshake_payload: deviceId, userAgent (and, on mobile,
\* clientSessionId and mt_instanceid) only.
HandshakeToken(tk) == NoTok

NewConn(is_mobile) ==
  [mobile |-> is_mobile, reader |-> "run", ping |-> "run", wire |-> <<>>, unans |-> {}]

\* connect up to its handshake: the transport comes up, then one lock
\* section stores the ids, spawns read_task and ping_task and installs the
\* writer and a fresh shutdown channel (dropping the previous Sender); the
\* handshake's send_and_wait is entered.
Install(base, t, is_mobile) ==
  LET k == Len(conn) + 1
      counted == [d \in 1..Len(base[t]) |->
                    IF base[t][d].api # "connect"
                    THEN [base[t][d] EXCEPT !.nest = @ + 1]
                    ELSE base[t][d]]
      waiting == SetTop(counted, [counted[Len(counted)] EXCEPT !.pc = "child"])
  IN /\ budget.conns > 0
     /\ budget' = [ops |-> IF t \in Callers /\ Len(base[t]) = 1 /\ base[t][1].api = "connect"
                           THEN budget.ops - 1 ELSE budget.ops,
                    conns |-> budget.conns - 1]
     /\ conn' = Append(conn, NewConn(is_mobile))
     /\ writer' = k
     /\ shutdown_tx' = k
     /\ stack' = [base EXCEPT ![t] = Append(waiting, Frame("handshake", HandshakeToken(token)))]
     /\ device_id' = "dev"
     /\ mt_instance' = "mt"

\* The reconnect inside send_frame: this.connect(id, mt, true).
connect_install(t) ==
  /\ AtPc(t, "connect")
  /\ Install(stack, t, TRUE)
  /\ UNCHANGED <<seq, temp_token, token, pending, user_id, result, events, epoch, tel_state, codec>>

\* MobileTransport::connect_tls fails: ConnectionFailed.
connect_fail(t) ==
  /\ AtPc(t, "connect")
  /\ TaskReturns(t, R("ConnectionFailed", NoPayload))
  /\ UNCHANGED <<state_fields, budget, events, epoch, tel_state, codec>>

\* MobileWriter::send puts request.seq as u8 in the header; WebWriter::send
\* serialises the whole u64.
WireSeq(s, is_mobile) == IF is_mobile THEN s % SeqWidth ELSE s

WireFrame(f, is_mobile) ==
  [op |-> f.op, seq |-> WireSeq(f.seq, is_mobile), tok |-> f.tok, ep |-> f.ep]

send_frame_write(t) ==
  /\ AtPc(t, "write")
  /\ IF writer = 0
     THEN TaskReturns(t, R("NotConnected", NoPayload))
     ELSE /\ conn' = [conn EXCEPT
                        ![writer].wire = Append(@, WireFrame(Top(t), conn[writer].mobile)),
                        ![writer].unans = IF conn[writer].reader = "run"
                                          THEN @ \cup {Len(conn[writer].wire) + 1} ELSE @]
          /\ stack' = [stack EXCEPT ![t] = SetTop(@, [Top(t) EXCEPT !.pc = "wait"])]
          /\ result' = result
  /\ UNCHANGED <<state_fields, budget, events, epoch, tel_state, codec>>

\* write_all / the sink's send fails (the transport is broken).
send_frame_write_fail(t) ==
  /\ AtPc(t, "write")
  /\ writer # 0
  /\ TaskReturns(t, R("SendFailed", NoPayload))
  /\ UNCHANGED <<state_fields, budget, events, epoch, tel_state, codec>>

SyncUserIdFromProfile(res, uid) == IF res.kind = "Ok" THEN res.payload.uid ELSE uid

\* state.user_id after sync has got res from its send_and_wait: sync returns
\* res as it is and stores nothing.
SyncUserId(res, uid) == uid

send_and_wait_recv(t) ==
  /\ AtPc(t, "wait")
  /\ Top(t).rx # Empty
  /\ TaskReturns(t, Classify(Top(t).rx))
  /\ user_id' = IF Len(stack[t]) = 1 /\ Top(t).api = "sync"
                THEN SyncUserId(Classify(Top(t).rx), user_id)
                ELSE user_id
  /\ UNCHANGED <<writer, seq, temp_token, token, pending, shutdown_tx, device_id,
                 mt_instance, budget, events, epoch, tel_state, codec>>

\* timeout(DEFAULT_TIMEOUT, rx) elapses with nothing received: rx is dropped.
send_and_wait_timeout(t) ==
  /\ AtPc(t, "wait")
  /\ Top(t).rx = Empty
  /\ stack' = [stack EXCEPT ![t] = SetTop(@, [Top(t) EXCEPT !.pc = "timedout"])]
  /\ UNCHANGED <<state_fields, conn, result, budget, events, epoch, tel_state, codec>>

\* Err(Error::RequestTimeout(Constants::DEFAULT_TIMEOUT))
RequestTimeout == [R("RequestTimeout", NoPayload) EXCEPT !.ms = DEFAULT_TIMEOUT]

TimeoutRemovesNothing(p, s) == {}

\* pending.remove(&request.seq) under the session lock: the entries of p
\* that go.
TimeoutRemoves(p, s) == {e \in p : e.seq = s}

send_and_wait_timeout_cleanup(t) ==
  /\ AtPc(t, "timedout")
  /\ LET gone == TimeoutRemoves(pending, Top(t).seq) IN
     /\ pending' = pending \ gone
     /\ TaskReturnsFrom(Complete(stack, gone, Dropped), t, RequestTimeout)
  /\ UNCHANGED <<writer, seq, temp_token, token, shutdown_tx, user_id, device_id,
                 mt_instance, budget, events, epoch, tel_state, codec>>

\* ------------------------------------------------------------ the callers
\* At most NumCallers API calls are in flight; a new call takes the first
\* free caller.
MayStart(c) ==
  /\ stack[c] = <<>>
  /\ budget.ops > 0
  /\ \A c2 \in Callers : c2[2] < c[2] => stack[c2] # <<>>

Spend == budget' = [budget EXCEPT !.ops = @ - 1]

\* start_auth, submit_register and the business helpers build a payload and
\* enter send_and_wait.
Call(c, api) ==
  /\ MayStart(c) /\ Spend
  /\ Alloc([stack EXCEPT ![c] = <<Frame(api, NoTok)>>], c)
  /\ UNCHANGED <<writer, temp_token, token, shutdown_tx, user_id, device_id,
                 mt_instance, conn, result, events, epoch, tel_state, codec>>

PayloadTokenSession(api) == token

\* check_code reads temp_token and sync reads token in a lock section of
\* their own; a missing token is Err(Other) before any send_and_wait.
PayloadToken(api) == IF api = "check_code" THEN temp_token ELSE token

TokenNeverMissing(api) == FALSE

\* state.temp_token.as_ref().ok_or(..)? and state.token.as_ref().ok_or(..)?
TokenMissing(api) == PayloadToken(api) = NoTok

call_with_token(c, api) ==
  /\ MayStart(c) /\ Spend
  /\ IF TokenMissing(api)
     THEN /\ result' = [result EXCEPT ![c] = Outcome(api, R("Other", NoPayload))]
          /\ stack' = stack
     ELSE /\ stack' = [stack EXCEPT ![c] = <<Frame(api, PayloadToken(api))>>]
          /\ result' = result
  /\ UNCHANGED <<state_fields, conn, events, epoch, tel_state, codec>>

\* connect(device_id, mt_instance, is_mobile) called by the user.
connect(c, is_mobile) ==
  /\ MayStart(c)
  /\ Install([stack EXCEPT ![c] = <<Frame("connect", NoTok)>>], c, is_mobile)
  /\ UNCHANGED <<seq, temp_token, token, pending, user_id, result, events, epoch, tel_state, codec>>

connect_refused(c) ==
  /\ MayStart(c) /\ Spend
  /\ result' = [result EXCEPT ![c] = Outcome("connect", R("ConnectionFailed", NoPayload))]
  /\ UNCHANGED <<state_fields, conn, stack, events, epoch, tel_state, codec>>

\* What disconnect does to the senders in pending: clear() drops them.
DisconnectCompletion == Dropped

disconnect(c) ==
  /\ MayStart(c) /\ Spend
  /\ shutdown_tx' = NoChan
  /\ writer' = 0
  /\ pending' = {}
  /\ stack' = Complete(stack, pending, DisconnectCompletion)
  /\ token' = NoTok
  /\ user_id' = 0
  /\ seq' = 0
  /\ epoch' = epoch + 1
  /\ result' = [result EXCEPT ![c] = Outcome("disconnect", R("Ok", NoPayload))]
  /\ UNCHANGED <<temp_token, device_id, mt_instance, conn, events, tel_state, codec>>

set_token(c, tok) ==
  /\ MayStart(c) /\ Spend
  /\ token' = tok
  /\ result' = [result EXCEPT ![c] = Outcome("set_token", R("Ok", NoPayload))]
  /\ UNCHANGED <<writer, seq, temp_token, pending, shutdown_tx, user_id, device_id,
                 mt_instance, conn, stack, events, epoch, tel_state, codec>>

set_user_id(c, n) ==
  /\ MayStart(c) /\ Spend
  /\ user_id' = n
  /\ result' = [result EXCEPT ![c] = Outcome("set_user_id", R("Ok", NoPayload))]
  /\ UNCHANGED <<writer, seq, temp_token, token, pending, shutdown_tx, device_id,
                 mt_instance, conn, stack, events, epoch, tel_state, codec>>

\* The tail of start_auth / check_code / submit_register after Ok(resp).
post(t) ==
  /\ AtPc(t, "post")
  /\ LET f == Top(t)
         p == f.rx.payload
         panics == f.api = "check_code" /\ p.tokenType = NoTok  \* .unwrap() on None
     IN /\ temp_token' = IF f.api = "start_auth"
                            \/ (f.api = "check_code" /\ p.tokenType = "REGISTER")
                         THEN p.token ELSE temp_token
        /\ token' = IF f.api = "submit_register"
                       \/ (f.api = "check_code" /\ p.tokenType \notin {"REGISTER", NoTok})
                    THEN p.token ELSE token
        /\ stack' = [stack EXCEPT ![t] = <<>>]
        /\ result' = [result EXCEPT ![t] =
                        Outcome(f.api, IF panics THEN R("Panic", NoPayload) ELSE f.rx)]
  /\ UNCHANGED <<writer, seq, pending, shutdown_tx, user_id, device_id, mt_instance,
                 conn, budget, events, epoch, tel_state, codec>>

\* ------------------------------------------------------------------ the peer
\* What the server may answer to a request of opcode op.  An error payload
\* may carry a token and a profile id as well.
ErrPayload == Payload(TRUE, "T9", "LOGIN", 7)

ServerPayloads(op) ==
  CASE op = 17 -> {ErrPayload, Payload(FALSE, "T0", NoTok, 0)}
    [] op = 18 -> {ErrPayload, Payload(FALSE, "T1", "LOGIN", 0),
                   Payload(FALSE, "R0", "REGISTER", 0), Payload(FALSE, "T3", NoTok, 0)}
    [] op = 19 -> {ErrPayload, Payload(FALSE, NoTok, NoTok, 42)}
    [] op = 23 -> {ErrPayload, Payload(FALSE, "T2", NoTok, 0)}
    [] OTHER -> {ErrPayload, NoPayload}

\* ------------------------------------------------------------------ read_task
\* What next_message makes of what arrives.  "frame" is a well-formed frame,
\* "eof" a short read at the header or the end of the WebSocket stream, "io"
\* a failed header read; the rest are frames that fail to decode.
MobileDecodeFailures == {"short_payload", "lz4", "msgpack"}
WebDecodeFailures == {"json"}
DecodeFailures == MobileDecodeFailures \cup WebDecodeFailures

next_message(raw) ==
  CASE raw = "frame" -> "Some"
    [] raw = "eof" -> "None"
    [] raw \in {"io", "short_payload"} -> "ErrConnectionFailed"
    [] raw \in {"lz4", "msgpack", "json"} -> "ErrApiResponse"

\* What can arrive on connection k besides a well-formed frame: the peer
\* closes, the transport breaks, or a frame is malformed for k's codec.
Arrivals(k) ==
  {"eof", "io"} \cup (IF conn[k].mobile THEN MobileDecodeFailures ELSE WebDecodeFailures)

\* Ok(Some(resp)): remove the slot at resp.seq under the pending lock and
\* complete it, or publish the frame on event_tx.
Dispatch(k, rseq, payload) ==
  LET hit == {e \in pending : e.seq = rseq} IN
  /\ pending' = pending \ hit
  /\ stack' = Complete(stack, hit, R("Ok", payload))
  /\ events' = IF hit = {} THEN events \cup {[conn |-> k, seq |-> rseq]} ELSE events

\* The peer answers a frame written on connection k, echoing its seq; unans
\* holds the positions in wire of the frames the peer may still answer (none
\* once nothing reads connection k any more).
read_task_response(k) ==
  /\ k \in 1..Len(conn)
  /\ conn[k].reader = "run"
  /\ next_message("frame") = "Some"
  /\ \E i \in conn[k].unans :
       /\ \E payload \in ServerPayloads(conn[k].wire[i].op) :
            Dispatch(k, conn[k].wire[i].seq, payload)
       /\ conn' = [conn EXCEPT ![k].unans = @ \ {i}]
  /\ UNCHANGED <<writer, seq, temp_token, token, shutdown_tx, user_id, device_id,
                 mt_instance, result, budget, epoch, tel_state, codec>>

\* Whether read_task leaves its loop, clearing the writer and draining
\* pending, on this result of next_message.
ReaderStops(res) == res \in {"None", "ErrConnectionFailed", "ErrApiResponse"}

ReaderDrainsNothing(p) == {}

\* Ok(None) and Err(e): under the session lock, writer = None and every
\* pending sender gets Err(ConnectionClosed); then break.  The entries of p
\* that are drained.
ReaderDrains(p) == p

\* How a reader task ended (history): on a frame that failed to decode, or
\* on the end of the stream / a failed read.
EndReason(raw) == IF raw \in DecodeFailures THEN "decode" ELSE "closed"

read_task_end(k, raw) ==
  /\ k \in 1..Len(conn)
  /\ conn[k].reader = "run"
  /\ raw \in Arrivals(k)
  /\ ReaderStops(next_message(raw))
  /\ writer' = 0
  /\ LET gone == ReaderDrains(pending) IN
     /\ stack' = Complete(stack, gone, R("ConnectionClosed", NoPayload))
     /\ pending' = pending \ gone
  /\ conn' = [conn EXCEPT ![k].reader = EndReason(raw), ![k].unans = {}]
  /\ UNCHANGED <<seq, temp_token, token, shutdown_tx, user_id, device_id, mt_instance,
                 result, budget, events, epoch, tel_state, codec>>

\* A broadcast receiver's recv() returns once () was sent or the Sender is
\* gone; the Sender of connection k's channel lives in state.shutdown_tx
\* until disconnect takes it or a later connect replaces it.
ShutdownSeen(k) == shutdown_tx # k

read_task_shutdown(k) ==
  /\ k \in 1..Len(conn)
  /\ conn[k].reader = "run"
  /\ ShutdownSeen(k)
  /\ conn' = [conn EXCEPT ![k].reader = "shutdown", ![k].unans = {}]
  /\ UNCHANGED <<state_fields, stack, result, budget, events, epoch, tel_state, codec>>

\* ------------------------------------------------------------------ ping_task
ping_tick(k) ==
  /\ k \in 1..Len(conn)
  /\ conn[k].ping = "run" /\ stack[<<"ping", k>>] = <<>>
  /\ budget.ops > 0
  /\ Spend
  /\ stack' = [stack EXCEPT ![<<"ping", k>>] = <<Frame("ping", NoTok)>>]
  /\ UNCHANGED <<state_fields, conn, result, events, epoch, tel_state, codec>>

ping_shutdown(k) ==
  /\ k \in 1..Len(conn)
  /\ conn[k].ping = "run" /\ stack[<<"ping", k>>] = <<>>
  /\ ShutdownSeen(k)
  /\ conn' = [conn EXCEPT ![k].ping = "done"]
  /\ UNCHANGED <<state_fields, stack, result, budget, events, epoch, tel_state, codec>>

\* The codec is idle.
NoCodec == [job |-> "none"]

\* ------------------------------------------------------------------ telemetry
\* The screen graph of the navigation module: the names, their ids and the
\* screens get_random_navigation may pick after a screen.
Screens == {"chats_list_tab", "settings_tab"}
get_screen_id(name) == IF name = "chats_list_tab" THEN 2 ELSE 3
get_random_navigation(from) == Screens \ {from}

\* A telemetry task that was not spawned.  pc is its position:
\*   wait_uid    reading user_id in the wait loop           (telemetry.rs 178)
\*   wait_conn   reading is_connected in the wait loop      (telemetry.rs 179)
\*   wait_sleep  in the select of the wait loop             (telemetry.rs 182-188)
\*   cold        before send_cold_start_internal's lock     (telemetry.rs 192, 65)
\*   sending     inside send_navigation_event_internal      (telemetry.rs 50)
\*   sleeping    in the select of the steady loop           (telemetry.rs 199-211)
\*   nav         before send_random_navigation's lock       (telemetry.rs 205, 97)
\*   done        the task has returned
\* ch is the shutdown channel it subscribed to, log the events it built.
NoTel == [pc |-> "none", ch |-> NoChan, uid_seen |-> FALSE, log |-> <<>>]

TelTask(i) == <<"tel", i>>
TelAt(i, pc) == tel[i].pc = pc

\* shutdown_rx.recv() of telemetry task i is ready: () was sent on its
\* channel or the channel's Sender is gone.
TelShutdownSeen(i) == shutdown_tx # tel[i].ch

\* Entering the select of the steady loop: a receiver that is ready wins
\* over a sleep that has just been created.
SteadySelect(i) == IF TelShutdownSeen(i) THEN "done" ELSE "sleeping"

\* spawn_telemetry_task: subscribe to the current shutdown channel and spawn,
\* or return when there is none.
spawn_telemetry_task(c, i) ==
  /\ stack[c] = <<>>
  /\ \A c2 \in Callers : c2[2] < c[2] => stack[c2] # <<>>
  /\ TelAt(i, "none")
  /\ \A j \in 1..(i - 1) : ~TelAt(j, "none")
  /\ shutdown_tx # NoChan
  /\ tel' = [tel EXCEPT ![i] = [NoTel EXCEPT !.pc = "wait_uid", !.ch = shutdown_tx]]
  /\ result' = [result EXCEPT ![c] = Outcome("spawn_telemetry_task", R("Ok", NoPayload))]
  /\ UNCHANGED <<state_fields, conn, stack, budget, events, epoch, current_screen, codec>>

tel_wait_uid(i) ==
  /\ TelAt(i, "wait_uid")
  /\ tel' = [tel EXCEPT ![i].uid_seen = (user_id # 0), ![i].pc = "wait_conn"]
  /\ UNCHANGED <<state_fields, conn, stack, result, budget, events, epoch, current_screen, codec>>

tel_wait_conn(i) ==
  /\ TelAt(i, "wait_conn")
  /\ tel' = [tel EXCEPT ![i].pc =
               IF writer # 0 /\ tel[i].uid_seen THEN "cold"
               ELSE IF TelShutdownSeen(i) THEN "done" ELSE "wait_sleep"]
  /\ UNCHANGED <<state_fields, conn, stack, result, budget, events, epoch, current_screen, codec>>

\* sleep(1 s) of the wait loop elapses.
tel_wait_wake(i) ==
  /\ TelAt(i, "wait_sleep")
  /\ tel' = [tel EXCEPT ![i].pc = "wait_uid"]
  /\ UNCHANGED <<state_fields, conn, stack, result, budget, events, epoch, current_screen, codec>>

\* shutdown_rx.recv() returns in either select.
tel_shutdown(i) ==
  /\ TelAt(i, "wait_sleep") \/ TelAt(i, "sleeping")
  /\ TelShutdownSeen(i)
  /\ tel' = [tel EXCEPT ![i].pc = "done"]
  /\ UNCHANGED <<state_fields, conn, stack, result, budget, events, epoch, current_screen, codec>>

ColdStartAsNav ==
  [event |-> "NAV", screen_from |-> 1,
   screen_to |-> get_screen_id("chats_list_tab")]

ColdStartEvent ==
  [event |-> "COLD_START", screen_from |-> 1,
   screen_to |-> get_screen_id("chats_list_tab")]

\* send_cold_start_internal: without a user_id nothing is built; else the
\* event is built under the lock and handed to send_and_wait(5, ..).
tel_cold_start(i) ==
  /\ TelAt(i, "cold")
  /\ IF user_id = 0
     THEN /\ tel' = [tel EXCEPT ![i].pc = SteadySelect(i)]
          /\ stack' = stack
     ELSE /\ tel' = [tel EXCEPT ![i].pc = "sending",
                                ![i].log = Append(@, ColdStartEvent)]
          /\ stack' = [stack EXCEPT ![TelTask(i)] = <<Frame("telemetry", NoTok)>>]
  /\ UNCHANGED <<state_fields, conn, result, budget, events, epoch, current_screen, codec>>

\* send_navigation_event_internal has returned (whatever the result).
tel_sent(i) ==
  /\ TelAt(i, "sending") /\ stack[TelTask(i)] = <<>>
  /\ tel' = [tel EXCEPT ![i].pc = SteadySelect(i)]
  /\ UNCHANGED <<state_fields, conn, stack, result, budget, events, epoch, current_screen, codec>>

\* The sleep of the steady loop elapses: is_connected decides.
tel_wake(i) ==
  /\ TelAt(i, "sleeping")
  /\ Len(tel[i].log) < MaxEvents
  /\ tel' = [tel EXCEPT ![i].pc = IF writer = 0 THEN "done" ELSE "nav"]
  /\ UNCHANGED <<state_fields, conn, stack, result, budget, events, epoch, current_screen, codec>>

\* The screen a NAV event starts from.
NavFrom(cur) == cur

\* send_random_navigation_internal.
tel_nav(i) ==
  /\ TelAt(i, "nav")
  /\ IF user_id = 0
     THEN /\ tel' = [tel EXCEPT ![i].pc = SteadySelect(i)]
          /\ UNCHANGED <<stack, current_screen>>
     ELSE \E to \in get_random_navigation(current_screen) :
            /\ tel' = [tel EXCEPT ![i].pc = "sending",
                          ![i].log = Append(@, [event |-> "NAV",
                                                screen_from |-> get_screen_id(NavFrom(current_screen)),
                                                screen_to |-> get_screen_id(to)])]
            /\ current_screen' = to
            /\ stack' = [stack EXCEPT ![TelTask(i)] = <<Frame("telemetry", NoTok)>>]
  /\ UNCHANGED <<state_fields, conn, result, budget, events, epoch, codec>>

Telemetry(i) ==
  \/ tel_wait_uid(i)
  \/ tel_wait_conn(i)
  \/ tel_wait_wake(i)
  \/ tel_shutdown(i)
  \/ tel_cold_start(i)
  \/ tel_sent(i)
  \/ tel_wake(i)
  \/ tel_nav(i)

\* --------------------------------------------------------------- mobile codec
put_u16_le(x) == <<x % 256, x \div 256>>

\* BufMut::put_u16 / put_u32: big-endian bytes.
put_u16(x) == <<x \div 256, x % 256>>
put_u32(x) == <<x \div 16777216, (x \div 65536) % 256, (x \div 256) % 256, x % 256>>

\* u16::from_be_bytes.
u16_from_be_bytes(hi, lo) == hi * 256 + lo

\* MobileWriter::send for a request whose MessagePack payload has len bytes:
\* the 10-byte header, or SendFailed("Payload too large").
MobileWriter_send(req, len) ==
  IF len > MAX_PAYLOAD
  THEN [kind |-> "SendFailed", header |-> <<>>]
  ELSE [kind |-> "Ok",
        header |-> <<req.ver % 256>> \o put_u16(req.cmd % 65536) \o <<req.seq % 256>>
                   \o put_u16(req.opcode) \o put_u32(len % (MAX_PAYLOAD + 1))]

\* The header parsing of MobileReader::next_message.  packed_len_raw >> 24 is
\* the first of the four length bytes and packed_len_raw & 0xFFFFFF the
\* other three.
parse_header(header) ==
  [ver |-> header[1],
   cmd |-> u16_from_be_bytes(header[2], header[3]),
   seq |-> header[4],
   opcode |-> u16_from_be_bytes(header[5], header[6]),
   comp_flag |-> header[7],
   payload_len |-> header[8] * 65536 + header[9] * 256 + header[10]]

\* Response { ver, cmd: cmd as u8, seq, opcode, payload }.
Response(h, payload) ==
  [ver |-> h.ver, cmd |-> h.cmd % 256, seq |-> h.seq, opcode |-> h.opcode,
   payload |-> payload]

\* What follows the header on the stream: how many bytes can be read, what
\* lz4 decompression makes of them and what rmpv makes of the plain bytes.
Bodies ==
  [avail : 0..MaxBody, lz4 : {"error", "empty", "bytes"}, msgpack : {"error", "value"}]

\* The first step of decoding when decompression is tried before the length.
next_message_lz4_first(header, body) ==
  LET h == parse_header(header) IN
  IF h.comp_flag # 0
  THEN [kind |-> IF body.lz4 = "error" THEN "ErrApiResponse" ELSE "Ok",
        resp |-> Response(h, "null"), read |-> h.payload_len, decompressed |-> TRUE]
  ELSE [kind |-> "Ok", resp |-> Response(h, "null"), read |-> 0, decompressed |-> FALSE]

\* MobileReader::next_message after the header was read: the result, the
\* payload bytes read from the stream and whether lz4 ran.
next_message_frame(header, body) ==
  LET h == parse_header(header) IN
  IF h.payload_len = 0
  THEN [kind |-> "Ok", resp |-> Response(h, "null"), read |-> 0, decompressed |-> FALSE]
  ELSE IF body.avail < h.payload_len
  THEN [kind |-> "ErrConnectionFailed", resp |-> Response(h, "null"),
        read |-> body.avail, decompressed |-> FALSE]
  ELSE IF h.comp_flag # 0 /\ body.lz4 = "error"
  THEN [kind |-> "ErrApiResponse", resp |-> Response(h, "null"),
        read |-> h.payload_len, decompressed |-> TRUE]
  ELSE IF h.comp_flag # 0 /\ body.lz4 = "empty"
  THEN [kind |-> "Ok", resp |-> Response(h, "null"),
        read |-> h.payload_len, decompressed |-> TRUE]
  ELSE IF body.msgpack = "error"
  THEN [kind |-> "ErrApiResponse", resp |-> Response(h, "null"),
        read |-> h.payload_len, decompressed |-> h.comp_flag # 0]
  ELSE [kind |-> "Ok", resp |-> Response(h, "value"),
        read |-> h.payload_len, decompressed |-> h.comp_flag # 0]

\* 64-bit integers as three digits of base Limb, most significant first.
Zero == <<0, 0, 0>>
MAX_SAFE_INT == <<511, Limb - 1, Limb - 1>>      \* 9_007_199_254_740_991
I64_MAX == <<524287, Limb - 1, Limb - 1>>        \* 2^63 - 1
I64_MIN_MAG == <<524288, 0, 0>>                  \* 2^63

Gt(a, b) ==
  \/ a[1] > b[1]
  \/ a[1] = b[1] /\ a[2] > b[2]
  \/ a[1] = b[1] /\ a[2] = b[2] /\ a[3] > b[3]

\* rmpv::Integer is PosInt(u64) or NegInt(i64 < 0): a sign and a magnitude.
\* Option<u64> / Option<i64>: neg and mag mean nothing when some is FALSE.
as_u64(i) == [some |-> ~i.neg, neg |-> FALSE, mag |-> i.mag]
as_i64(i) == [some |-> i.neg \/ ~Gt(i.mag, I64_MAX), neg |-> i.neg, mag |-> i.mag]

\* m divided by 10: quotient and remainder.
DivMod10(m) ==
  LET t2 == (m[1] % 10) * Limb + m[2]
      t3 == (t2 % 10) * Limb + m[3]
  IN [q |-> <<m[1] \div 10, t2 \div 10, t3 \div 10>>, r |-> t3 % 10]

RECURSIVE Digits(_)
Digits(m) == IF m = Zero THEN <<>> ELSE Append(Digits(DivMod10(m).q), DivMod10(m).r)

\* Reading decimal digits back: m * 10 + d, and the value of a digit string.
MulAdd10(m, d) ==
  LET lo == m[3] * 10 + d
      mid == m[2] * 10 + lo \div Limb
  IN <<m[1] * 10 + mid \div Limb, mid % Limb, lo % Limb>>

RECURSIVE FromDigits(_)
FromDigits(ds) ==
  IF ds = <<>> THEN Zero
  ELSE MulAdd10(FromDigits(SubSeq(ds, 1, Len(ds) - 1)), ds[Len(ds)])

\* u64::to_string / i64::to_string: the decimal digits and the sign.
to_string(neg, m) == [neg |-> neg, digits |-> IF m = Zero THEN <<0>> ELSE Digits(m)]

JsonNumber(neg, m) == [type |-> "number", neg |-> neg, mag |-> m]
JsonString(str) == [type |-> "string", str |-> str]

ExceedsSafeInclusive(m) == ~Gt(MAX_SAFE_INT, m)

\* v > MAX_SAFE_INT, and v < -(MAX_SAFE_INT as i64) for a negative v of
\* magnitude m.
ExceedsSafe(m) == Gt(m, MAX_SAFE_INT)

\* msgpack_to_json on MsgPackValue::Integer(i).
msgpack_to_json(i) ==
  IF as_u64(i).some
  THEN IF ExceedsSafe(as_u64(i).mag)
       THEN JsonString(to_string(FALSE, as_u64(i).mag))
       ELSE JsonNumber(FALSE, as_u64(i).mag)
  ELSE IF as_i64(i).some
  THEN IF ExceedsSafe(as_i64(i).mag)
       THEN JsonString(to_string(as_i64(i).neg, as_i64(i).mag))
       ELSE JsonNumber(as_i64(i).neg, as_i64(i).mag)
  ELSE [type |-> "null"]

\* The fields of the JSON record a web frame carries.
ResponseFields == {"ver", "cmd", "seq", "opcode", "payload"}

\* #[derive(Deserialize)] on Response: the fields without which
\* deserialization fails with "missing field" (none has #[serde(default)]).
RequiredFields == ResponseFields

\* serde_json::from_slice::<Response>(body): Err for bytes that are not a
\* JSON record and for a record that lacks a required field.
from_slice_Response(body) ==
  IF ~body.json \/ ~(RequiredFields \subseteq body.present)
  THEN [kind |-> "Err", resp |-> Response([ver |-> 0, cmd |-> 0, seq |-> 0, opcode |-> 0], "null")]
  ELSE [kind |-> "Ok",
        resp |-> [ver |-> body.ver,
                  cmd |-> IF "cmd" \in body.present THEN body.cmd ELSE 0,
                  seq |-> body.seq, opcode |-> body.opcode, payload |-> "value"]]

\* WebReader::next_message on what reader.next() yields.
web_next_message(frame) ==
  IF ~frame.some THEN [kind |-> "None", resp |-> from_slice_Response(frame).resp]
  ELSE IF from_slice_Response(frame).kind = "Ok"
  THEN [kind |-> "Some", resp |-> from_slice_Response(frame).resp]
  ELSE [kind |-> "ErrApiResponse", resp |-> from_slice_Response(frame).resp]

\* The codec's steps on the job at hand.
codec_send ==
  /\ codec.job = "request" /\ codec.stage = "built"
  /\ codec' = [codec EXCEPT !.stage = "sent",
                            !.out = MobileWriter_send(codec.req, codec.len)]
  /\ UNCHANGED <<state_fields, conn, stack, result, budget, events, epoch, tel_state>>

codec_parse ==
  /\ codec.job = "request" /\ codec.stage = "sent" /\ codec.out.kind = "Ok"
  /\ codec' = [codec EXCEPT !.stage = "parsed", !.parsed = parse_header(codec.out.header)]
  /\ UNCHANGED <<state_fields, conn, stack, result, budget, events, epoch, tel_state>>

codec_next_message ==
  /\ codec.job = "frame" /\ codec.stage = "arrived"
  /\ codec' = [codec EXCEPT !.stage = "decoded",
                            !.out = next_message_frame(codec.header, codec.body)]
  /\ UNCHANGED <<state_fields, conn, stack, result, budget, events, epoch, tel_state>>

codec_web_next_message ==
  /\ codec.job = "web" /\ codec.stage = "arrived"
  /\ codec' = [codec EXCEPT !.stage = "decoded", !.out = web_next_message(codec.frame)]
  /\ UNCHANGED <<state_fields, conn, stack, result, budget, events, epoch, tel_state>>

codec_to_json ==
  /\ codec.job = "integer" /\ codec.stage = "unpacked"
  /\ codec' = [codec EXCEPT !.stage = "json", !.out = msgpack_to_json(codec.n)]
  /\ UNCHANGED <<state_fields, conn, stack, result, budget, events, epoch, tel_state>>

\* ------------------------------------------------------- the writer's lock
\* The second lock section of send_frame at the grain of the transport:
\* write_all hands the frame's buffer to the stream in parts, with
\* suspension points in between.  lock is the task holding the session
\* lock ("free" if none), stream the parts written so far.
Senders == {"caller", "keepalive", "telemetry"}

WriteJob ==
  [job |-> "writes", lock |-> "free", writer |-> TRUE,
   pc |-> [s \in Senders |-> "start"], stream |-> <<>>]

LockReleasedDuringSend(s) == "free"

\* Who holds the session lock while writer.send(request).await is pending:
\* the guard `state` lives until send_frame's block ends.
LockDuringSend(s) == s

\* this.state.lock().await
send_frame_lock(s) ==
  /\ codec.job = "writes" /\ codec.pc[s] = "start" /\ codec.lock = "free"
  /\ codec' = [codec EXCEPT !.lock = s, !.pc[s] = "locked"]
  /\ UNCHANGED <<state_fields, conn, stack, result, budget, events, epoch, tel_state>>

\* if let Some(writer) = &mut state.writer { writer.send(request) ... }:
\* the first part of the buffer goes out, or Err(NotConnected) is returned.
send_frame_send(s) ==
  /\ codec.job = "writes" /\ codec.pc[s] = "locked"
  /\ IF codec.writer
     THEN codec' = [codec EXCEPT !.pc[s] = "sending", !.lock = LockDuringSend(s),
                                 !.stream = Append(@, [by |-> s, part |-> "head"])]
     ELSE codec' = [codec EXCEPT !.pc[s] = "returned", !.lock = "free"]
  /\ UNCHANGED <<state_fields, conn, stack, result, budget, events, epoch, tel_state>>

\* write_all completes; send_frame returns and the guard is dropped.
send_frame_sent(s) ==
  /\ codec.job = "writes" /\ codec.pc[s] = "sending"
  /\ codec' = [codec EXCEPT !.pc[s] = "returned",
                            !.lock = IF @ = s THEN "free" ELSE @,
                            !.stream = Append(@, [by |-> s, part |-> "tail"])]
  /\ UNCHANGED <<state_fields, conn, stack, result, budget, events, epoch, tel_state>>

\* A task that has returned sends its next frame.
send_frame_again(s) ==
  /\ codec.job = "writes" /\ codec.pc[s] = "returned"
  /\ Len(codec.stream) < 2 * MaxFrames
  /\ codec' = [codec EXCEPT !.pc[s] = "start"]
  /\ UNCHANGED <<state_fields, conn, stack, result, budget, events, epoch, tel_state>>

\* disconnect's (or a reader end's) lock section: state.writer = None.
writer_taken ==
  /\ codec.job = "writes" /\ codec.lock = "free" /\ codec.writer
  /\ codec' = [codec EXCEPT !.writer = FALSE]
  /\ UNCHANGED <<state_fields, conn, stack, result, budget, events, epoch, tel_state>>

\* ------------------------------------------------------- the lock order
\* The session lock (tokio Mutex: waiters queue, the lock passes to the
\* head of the queue) and the pending lock (std Mutex), at the grain of
\* single lock operations.  A lock section is the order in which it takes
\* its locks and whether it awaits transport I/O while holding them.
LockTasks == {"connect", "disconnect", "reader", "telemetry"}

Section(order, io) == [order |-> order, io |-> io]

ReaderEndPendingFirst == <<"pending", "session">>

\* Ok(None) / Err(e) in read_task: state.lock().await, then pending.lock().
ReaderEndOrder == <<"session", "pending">>

SecAlloc == Section(<<"session", "pending">>, FALSE)      \* seq += 1, insert
SecCheck == Section(<<"session">>, FALSE)                 \* state.writer.is_none()
SecWrite == Section(<<"session">>, TRUE)                  \* writer.send(request).await
SecTimeout == Section(<<"session", "pending">>, FALSE)    \* remove(&request.seq)
SecConnect == Section(<<"session">>, FALSE)               \* spawn tasks, install writer
SecDisconnect == Section(<<"session", "pending">>, FALSE) \* writer = None, clear()
SecDispatch == Section(<<"pending">>, FALSE)              \* guard.remove(&seq)
SecReaderEnd == Section(ReaderEndOrder, FALSE)            \* writer = None, drain()
SecColdStart == Section(<<"session">>, FALSE)             \* user_id, action_id += 1

\* The lock sections of one send_and_wait, the last one on the timeout arm.
send_and_wait_sections == <<SecAlloc, SecCheck, SecWrite, SecTimeout>>

Program(t) ==
  CASE t = "connect" -> <<SecConnect>> \o send_and_wait_sections
    [] t = "telemetry" -> <<SecColdStart>> \o send_and_wait_sections
    [] t = "reader" -> <<SecDispatch, SecReaderEnd>>
    [] t = "disconnect" -> <<SecDisconnect>>
    [] OTHER -> send_and_wait_sections    \* a caller's request, the keepalive's ping

\* After its write a send_and_wait returns on a response; after a frame the
\* reader may be shut down.
MayReturnAfter(t, i) == i = Len(Program(t)) \/ Program(t)[i] \in {SecWrite, SecDispatch}

\* st[t]: sec is the section task t is in, got the locks of its order it
\* holds, phase is "run", "queued" (waiting for the session lock), "io"
\* (awaiting the transport), "sent" or "done".
OrderJob ==
  [job |-> "locks", session |-> "free", queue |-> <<>>, pend |-> "free",
   st |-> [t \in LockTasks |-> [sec |-> 1, got |-> 0, phase |-> "run"]],
   rounds |-> MaxRounds]

Wants(t) ==
  LET o == Program(t)[codec.st[t].sec].order IN
  IF codec.st[t].phase # "done" /\ codec.st[t].got < Len(o)
  THEN o[codec.st[t].got + 1] ELSE "none"

\* state.lock().await: the task joins the queue of the session lock.
lock_session_request(t) ==
  /\ codec.job = "locks" /\ codec.st[t].phase = "run" /\ Wants(t) = "session"
  /\ codec' = [codec EXCEPT !.queue = Append(@, t), !.st[t].phase = "queued"]
  /\ UNCHANGED <<state_fields, conn, stack, result, budget, events, epoch, tel_state>>

\* The session lock is free and t is the first waiter.
lock_session_acquire(t) ==
  /\ codec.job = "locks" /\ codec.st[t].phase = "queued"
  /\ codec.session = "free" /\ codec.queue # <<>> /\ Head(codec.queue) = t
  /\ codec' = [codec EXCEPT !.session = t, !.queue = Tail(@),
                            !.st[t].phase = "run", !.st[t].got = @ + 1]
  /\ UNCHANGED <<state_fields, conn, stack, result, budget, events, epoch, tel_state>>

\* pending.lock().unwrap()
lock_pending(t) ==
  /\ codec.job = "locks" /\ codec.st[t].phase = "run" /\ Wants(t) = "pending"
  /\ codec.pend = "free"
  /\ codec' = [codec EXCEPT !.pend = t, !.st[t].got = @ + 1]
  /\ UNCHANGED <<state_fields, conn, stack, result, budget, events, epoch, tel_state>>

\* writer.send(request).await is entered with the section's locks held.
transport_send(t) ==
  /\ codec.job = "locks" /\ codec.st[t].phase = "run" /\ Wants(t) = "none"
  /\ Program(t)[codec.st[t].sec].io
  /\ codec' = [codec EXCEPT !.st[t].phase = "io"]
  /\ UNCHANGED <<state_fields, conn, stack, result, budget, events, epoch, tel_state>>

\* The transport I/O completes.
transport_done(t) ==
  /\ codec.job = "locks" /\ codec.st[t].phase = "io"
  /\ codec' = [codec EXCEPT !.st[t].phase = "sent"]
  /\ UNCHANGED <<state_fields, conn, stack, result, budget, events, epoch, tel_state>>

\* The section's guards are dropped; the task goes on to its next section,
\* the reader to its next frame, or returns.
section_end(t) ==
  /\ codec.job = "locks" /\ Wants(t) = "none"
  /\ codec.st[t].phase = IF Program(t)[codec.st[t].sec].io THEN "sent" ELSE "run"
  /\ LET i == codec.st[t].sec
         freed == [codec EXCEPT !.session = IF @ = t THEN "free" ELSE @,
                                !.pend = IF @ = t THEN "free" ELSE @]
     IN \/ /\ i < Len(Program(t))
           /\ codec' = [freed EXCEPT !.st[t] = [sec |-> i + 1, got |-> 0, phase |-> "run"]]
        \/ /\ MayReturnAfter(t, i)
           /\ codec' = [freed EXCEPT !.st[t] = [sec |-> i, got |-> 0, phase |-> "done"]]
        \/ /\ Program(t)[i] = SecDispatch /\ codec.rounds > 0
           /\ codec' = [freed EXCEPT !.st[t] = [sec |-> i, got |-> 0, phase |-> "run"],
                                     !.rounds = @ - 1]
  /\ UNCHANGED <<state_fields, conn, stack, result, budget, events, epoch, tel_state>>

\* ------------------------------------------------------------ specifications
NoOutcome == [api |-> "none", kind |-> "None", payload |-> NoPayload, ms |-> 0]

\* MaxClient::new()
InitClient ==
  /\ writer = 0 /\ seq = 0
  /\ temp_token = NoTok /\ token = NoTok
  /\ pending = {}
  /\ shutdown_tx = 0
  /\ user_id = 0
  /\ device_id = NoTok /\ mt_instance = NoTok
  /\ conn = <<>>
  /\ stack = [t \in Tasks |-> <<>>]
  /\ result = [c \in Callers |-> NoOutcome]
  /\ events = {}
  /\ epoch = 0
  /\ current_screen = "chats_list_tab"
  /\ tel = [i \in 1..MaxTel |-> NoTel]
  /\ codec = NoCodec

Init == InitClient /\ budget = [ops |-> MaxOps, conns |-> MaxConn]

Step(t) ==
  \/ send_and_wait_alloc(t)
  \/ send_frame_check(t)
  \/ connect_install(t)
  \/ connect_fail(t)
  \/ send_frame_write(t)
  \/ send_frame_write_fail(t)
  \/ send_and_wait_recv(t)
  \/ send_and_wait_timeout(t)
  \/ send_and_wait_timeout_cleanup(t)

Background(k) ==
  \/ read_task_response(k)
  \/ \E raw \in {"eof", "io"} \cup DecodeFailures : read_task_end(k, raw)
  \/ read_task_shutdown(k)
  \/ ping_tick(k)
  \/ ping_shutdown(k)

Running ==
  \/ \E t \in Tasks : Step(t)
  \/ \E k \in 1..MaxSlots : Background(k)

\* From new(): callers connecting, issuing requests and disconnecting
\* concurrently.
Next ==
  \/ \E c \in Callers : Call(c, "fetch_history")
  \/ \E c \in Callers, is_mobile \in BOOLEAN : connect(c, is_mobile)
  \/ \E c \in Callers : connect_refused(c)
  \/ \E c \in Callers : disconnect(c)
  \/ Running

Spec == Init /\ [][Next]_vars

\* A live session: connect(.., true) has returned the handshake's response;
\* the reader and keepalive tasks of connection 1 run.
HandshakeFrame(s) == [op |-> HANDSHAKE, seq |-> s, tok |-> NoTok, ep |-> 0]

LiveClient ==
  /\ writer = 1 /\ seq = 1
  /\ temp_token = NoTok /\ token = NoTok
  /\ pending = {}
  /\ shutdown_tx = 1
  /\ user_id = 0
  /\ device_id = "dev" /\ mt_instance = "mt"
  /\ conn = <<[mobile |-> TRUE, reader |-> "run", ping |-> "run",
               wire |-> <<HandshakeFrame(1)>>, unans |-> {}]>>
  /\ stack = [t \in Tasks |-> <<>>]
  /\ result = [c \in Callers |->
                 IF c = <<"caller", 1>>
                 THEN Outcome("connect", R("Ok", NoPayload)) ELSE NoOutcome]
  /\ events = {}
  /\ epoch = 0
  /\ current_screen = "chats_list_tab"
  /\ tel = [i \in 1..MaxTel |-> NoTel]
  /\ codec = NoCodec

LiveInit == LiveClient /\ budget = [ops |-> LiveOps, conns |-> LiveConn]

LiveNext ==
  \/ \E c \in Callers : Call(c, "fetch_history")
  \/ \E c \in Callers : disconnect(c)
  \/ Running

LiveSpec == LiveInit /\ [][LiveNext]_vars

\* After a lost connection: the keepalive's ping was in flight when the
\* reader saw the end of the stream, so both tasks of connection 1 are
\* gone, the writer is cleared and the ids are still stored.
LostClient ==
  /\ writer = 0 /\ seq = 2
  /\ temp_token = NoTok /\ token = NoTok
  /\ pending = {}
  /\ shutdown_tx = 1
  /\ user_id = 0
  /\ device_id = "dev" /\ mt_instance = "mt"
  /\ conn = <<[mobile |-> TRUE, reader |-> "closed", ping |-> "done",
               wire |-> <<HandshakeFrame(1),
                          [op |-> PING, seq |-> 2, tok |-> NoTok, ep |-> 0]>>,
               unans |-> {}]>>
  /\ stack = [t \in Tasks |-> <<>>]
  /\ result = [c \in Callers |->
                 IF c = <<"caller", 1>>
                 THEN Outcome("connect", R("Ok", NoPayload)) ELSE NoOutcome]
  /\ events = {}
  /\ epoch = 0
  /\ current_screen = "chats_list_tab"
  /\ tel = [i \in 1..MaxTel |-> NoTel]
  /\ codec = NoCodec

LostInit == LostClient /\ budget = [ops |-> LostOps, conns |-> LostConn]

LostNext ==
  \/ Call(<<"caller", 1>>, "fetch_history")
  \/ disconnect(<<"caller", 1>>)
  \/ Running

LostSpec == LostInit /\ [][LostNext]_vars

\* A login on a live session: one caller going through the auth calls.
AuthInit == LiveClient /\ budget = [ops |-> AuthOps, conns |-> AuthConn]

AuthNext ==
  \/ \E api \in {"start_auth", "submit_register"} : Call(<<"caller", 1>>, api)
  \/ \E api \in {"check_code", "sync"} : call_with_token(<<"caller", 1>>, api)
  \/ set_token(<<"caller", 1>>, "T1")
  \/ set_user_id(<<"caller", 1>>, 42)
  \/ post(<<"caller", 1>>)
  \/ disconnect(<<"caller", 1>>)
  \/ Running

AuthSpec == AuthInit /\ [][AuthNext]_vars
\* A signed-in session (token and user_id set as the examples do after
\* sync) on which telemetry is spawned.
TelClient ==
  /\ writer = 1 /\ seq = 1
  /\ temp_token = NoTok /\ token = "T1"
  /\ pending = {}
  /\ shutdown_tx = 1
  /\ user_id = 42
  /\ device_id = "dev" /\ mt_instance = "mt"
  /\ conn = <<[mobile |-> TRUE, reader |-> "run", ping |-> "run",
               wire |-> <<HandshakeFrame(1)>>, unans |-> {}]>>
  /\ stack = [t \in Tasks |-> <<>>]
  /\ result = [c \in Callers |->
                 IF c = <<"caller", 1>>
                 THEN Outcome("set_user_id", R("Ok", NoPayload)) ELSE NoOutcome]
  /\ events = {}
  /\ epoch = 0
  /\ current_screen = "chats_list_tab"
  /\ tel = [i \in 1..MaxTel |-> NoTel]
  /\ codec = NoCodec

TelInit == TelClient /\ budget = [ops |-> TelOps, conns |-> TelConn]

\* The caller spawns telemetry tasks and may disconnect; the peer stays
\* silent (a telemetry task only logs what send_and_wait returns) and the
\* keepalive interval does not elapse.
TelNext ==
  \/ \E i \in 1..MaxTel : spawn_telemetry_task(<<"caller", 1>>, i)
  \/ disconnect(<<"caller", 1>>)
  \/ \E i \in 1..MaxTel : Telemetry(i)
  \/ \E t \in Tels : Step(t)
  \/ \E k \in 1..MaxSlots : read_task_shutdown(k) \/ ping_shutdown(k)

TelSpec == TelInit /\ [][TelNext]_vars

\* The requests handed to MobileWriter::send, with the length of their
\* encoded payload.
Requests ==
  [ver : {0, 10, 255}, cmd : {0, 1, 255}, seq : {0, 1, 255, 256, 257, 70000},
   opcode : {0, 6, 255, 256, 65535}]
PayloadLens == {0, 1, 255, 256, 65536, MAX_PAYLOAD - 1, MAX_PAYLOAD, MAX_PAYLOAD + 1}

\* The headers a peer may send: any bytes, with every comp_flag and the
\* payload lengths around 0.
PeerHeaders ==
  {<<v, ch, cl, sq, oh, ol, cf, 0, 0, pl>> :
     v \in {0, 10}, ch \in {0, 1}, cl \in {0, 255}, sq \in {0, 255},
     oh \in {0, 255}, ol \in {6}, cf \in {0, 1, 255}, pl \in 0..MaxBody}

\* The integers MessagePack can carry: 0 .. 2^64-1 and -2^63 .. -1, around
\* 0, 2^53, 2^63 and 2^64.
Magnitudes ==
  {<<a, b, c>> : a \in {0, 1, 511, 512, 513, 524287, 524288, 1048575},
                 b \in {0, 1, Limb - 1}, c \in {0, 1, 9, 10, Limb - 1}}
MsgPackIntegers ==
  {[neg |-> FALSE, mag |-> m] : m \in Magnitudes}
  \cup {[neg |-> TRUE, mag |-> m] : m \in {x \in Magnitudes : x # Zero /\ ~Gt(x, I64_MIN_MAG)}}

\* What a web peer may send: the end of the stream, bytes that are not JSON,
\* and JSON records with any of the fields left out.
WebFrames ==
  [some : BOOLEAN, json : BOOLEAN, present : SUBSET ResponseFields,
   ver : {10}, cmd : {0, 1}, seq : {0, 3}, opcode : {6, 128}]

CodecJobs ==
  {[job |-> "request", stage |-> "built", req |-> r, len |-> l,
    out |-> "none", parsed |-> "none"] : r \in Requests, l \in PayloadLens}
  \cup {[job |-> "frame", stage |-> "arrived", header |-> h, body |-> b, out |-> "none"] :
          h \in PeerHeaders, b \in Bodies}
  \cup {[job |-> "integer", stage |-> "unpacked", n |-> i, out |-> "none"] :
          i \in MsgPackIntegers}
  \cup {[job |-> "web", stage |-> "arrived", frame |-> f, out |-> "none"] : f \in WebFrames}

\* The codec alone, on a client fresh from new().
CodecInit ==
  /\ writer = 0 /\ seq = 0
  /\ temp_token = NoTok /\ token = NoTok
  /\ pending = {}
  /\ shutdown_tx = 0
  /\ user_id = 0
  /\ device_id = NoTok /\ mt_instance = NoTok
  /\ conn = <<>>
  /\ stack = [t \in Tasks |-> <<>>]
  /\ result = [c \in Callers |-> NoOutcome]
  /\ events = {}
  /\ epoch = 0
  /\ current_screen = "chats_list_tab"
  /\ tel = [i \in 1..MaxTel |-> NoTel]
  /\ budget = [ops |-> 0, conns |-> 0]
  /\ codec \in CodecJobs

CodecNext ==
  \/ codec_send
  \/ codec_parse
  \/ codec_next_message
  \/ codec_web_next_message
  \/ codec_to_json

CodecSpec == CodecInit /\ [][CodecNext]_vars

\* A long mobile session: the requests up to seq SeqWidth - 1 have been
\* answered (wire keeps the frames of the run only), the next send_and_wait
\* is assigned a seq beyond 8 bits.
WrapClient ==
  /\ writer = 1 /\ seq = SeqWidth - 1
  /\ temp_token = NoTok /\ token = NoTok
  /\ pending = {}
  /\ shutdown_tx = 1
  /\ user_id = 0
  /\ device_id = "dev" /\ mt_instance = "mt"
  /\ conn = <<[mobile |-> TRUE, reader |-> "run", ping |-> "run",
               wire |-> <<HandshakeFrame(1)>>, unans |-> {}]>>
  /\ stack = [t \in Tasks |-> <<>>]
  /\ result = [c \in Callers |->
                 IF c = <<"caller", 1>>
                 THEN Outcome("fetch_history", R("Ok", NoPayload)) ELSE NoOutcome]
  /\ events = {}
  /\ epoch = 0
  /\ current_screen = "chats_list_tab"
  /\ tel = [i \in 1..MaxTel |-> NoTel]
  /\ codec = NoCodec

WrapInit == WrapClient /\ budget = [ops |-> WrapOps, conns |-> WrapConn]

WrapSpec == WrapInit /\ [][LiveNext]_vars

\* Callers, the keepalive and a telemetry task sending on one writer.
LockInit ==
  /\ writer = 1 /\ seq = 1
  /\ temp_token = NoTok /\ token = NoTok
  /\ pending = {}
  /\ shutdown_tx = 1
  /\ user_id = 0
  /\ device_id = "dev" /\ mt_instance = "mt"
  /\ conn = <<[mobile |-> TRUE, reader |-> "run", ping |-> "run",
               wire |-> <<HandshakeFrame(1)>>, unans |-> {}]>>
  /\ stack = [t \in Tasks |-> <<>>]
  /\ result = [c \in Callers |-> NoOutcome]
  /\ events = {}
  /\ epoch = 0
  /\ current_screen = "chats_list_tab"
  /\ tel = [i \in 1..MaxTel |-> NoTel]
  /\ budget = [ops |-> 0, conns |-> 0]
  /\ codec = WriteJob

LockNext ==
  \/ \E s \in Senders : send_frame_lock(s)
  \/ \E s \in Senders : send_frame_send(s)
  \/ \E s \in Senders : send_frame_sent(s)
  \/ \E s \in Senders : send_frame_again(s)
  \/ writer_taken

LockSpec == LockInit /\ [][LockNext]_vars

\* The tasks of one client contending for the session lock and the pending
\* lock.  Some task that can take a lock, run on or finish its transport
\* I/O does so; whether a task asks for the session lock at all is left
\* open.
OrderInit ==
  /\ writer = 1 /\ seq = 1
  /\ temp_token = NoTok /\ token = NoTok
  /\ pending = {}
  /\ shutdown_tx = 1
  /\ user_id = 0
  /\ device_id = "dev" /\ mt_instance = "mt"
  /\ conn = <<[mobile |-> TRUE, reader |-> "run", ping |-> "run",
               wire |-> <<HandshakeFrame(1)>>, unans |-> {}]>>
  /\ stack = [t \in Tasks |-> <<>>]
  /\ result = [c \in Callers |-> NoOutcome]
  /\ events = {}
  /\ epoch = 0
  /\ current_screen = "chats_list_tab"
  /\ tel = [i \in 1..MaxTel |-> NoTel]
  /\ budget = [ops |-> 0, conns |-> 0]
  /\ codec = OrderJob

OrderNext ==
  \/ \E t \in LockTasks : lock_session_request(t)
  \/ \E t \in LockTasks : lock_session_acquire(t)
  \/ \E t \in LockTasks : lock_pending(t)
  \/ \E t \in LockTasks : transport_send(t)
  \/ \E t \in LockTasks : transport_done(t)
  \/ \E t \in LockTasks : section_end(t)

\* A step other than a task asking for the session lock.
Proceeds ==
  \E t \in LockTasks :
    \/ lock_session_acquire(t)
    \/ lock_pending(t)
    \/ transport_send(t)
    \/ transport_done(t)
    \/ section_end(t)

OrderSpec == OrderInit /\ [][OrderNext]_vars /\ WF_vars(Proceeds)

\* ------------------------------------------------------------------ claims
FramesOf(t) == 1..Len(stack[t])

\* Frame d of task t waits on its receiver for the slot it registered.
Outstanding(t, d) ==
  /\ stack[t][d].pc = "wait"
  /\ stack[t][d].rx = Empty
  /\ \E e \in pending : e.task = t /\ e.depth = d /\ e.seq = stack[t][d].seq

\* Task t's innermost send_and_wait returns in this step.
Returns(t) == stack[t] # <<>> /\ Len(stack'[t]) < Len(stack[t])

\* C1: on every connection, the frames of one session appear on the wire
\* with strictly increasing (hence pairwise distinct) seq, in write order.
C1_WireSeqIncreasing ==
  \A k \in 1..Len(conn) : \A i, j \in 1..Len(conn[k].wire) :
    (i < j /\ conn[k].wire[i].ep = conn[k].wire[j].ep)
      => conn[k].wire[i].seq < conn[k].wire[j].seq

\* C2: a disconnect() leaves pending empty and makes every send_and_wait
\* that was waiting for its response return ConnectionClosed.
C2_DisconnectClosesOutstanding ==
  [][epoch' = epoch + 1 =>
       /\ pending' = {}
       /\ \A t \in Tasks : \A d \in FramesOf(t) :
            Outstanding(t, d) => Classify(stack'[t][d].rx).kind = "ConnectionClosed"]_vars

\* C3: a send_and_wait whose wait elapsed returns RequestTimeout carrying
\* DEFAULT_TIMEOUT, no slot is left under its seq, and the step touches
\* neither the writer nor any connection's reader nor any other key of
\* pending; while no disconnect() came in between, the slot it removes is
\* its own, so the other calls of the session are served as before.
C3_TimeoutReturnsAndCleans ==
  [][\A t \in Tasks :
       (AtPc(t, "timedout") /\ Returns(t)) =>
         /\ Top(t).seq \notin Keys(pending')
         /\ pending' = {e \in pending : e.seq # Top(t).seq}
         /\ Top(t).ep = epoch =>
              \A e \in pending \ pending' : e.task = t /\ e.depth = Len(stack[t])
         /\ writer' = writer /\ seq' = seq /\ shutdown_tx' = shutdown_tx
         /\ \A k \in 1..Len(conn) : conn'[k].reader = conn[k].reader
                                    /\ conn'[k].wire = conn[k].wire
                                    /\ conn'[k].unans = conn[k].unans
         /\ (t \in Callers /\ Len(stack[t]) = 1) =>
              /\ stack'[t] = <<>>
              /\ result'[t].kind = "RequestTimeout"
              /\ result'[t].ms = DEFAULT_TIMEOUT]_vars

\* A fetch timed out, its slot is gone, and a call that took a later seq on
\* the same connection has been handed its response.
C3_Witness ==
  \E c \in Callers, t \in Tasks :
    /\ result[c].api = "fetch_history" /\ result[c].kind = "RequestTimeout"
    /\ stack[c] = <<>>
    /\ writer = 1 /\ conn[1].reader = "run"
    /\ Len(conn[1].wire) = 3
    /\ AtPc(t, "wait") /\ Top(t).rx.kind = "Ok"
    /\ Top(t).seq = conn[1].wire[3].seq
    /\ pending = {}

\* C4: a response whose payload has an error field makes the auth call
\* return ApiResponse with that very payload, at once, and temp_token, token
\* and user_id are what they were.
AuthApis == {"start_auth", "check_code", "submit_register", "sync"}

C4_ErrorPayloadSurfaces ==
  [][\A c \in Callers :
       (/\ AtPc(c, "wait") /\ Len(stack[c]) = 1
        /\ Top(c).api \in AuthApis
        /\ Top(c).rx.kind = "Ok" /\ Top(c).rx.payload.error
        /\ stack'[c] # stack[c]) =>
         /\ stack'[c] = <<>>
         /\ result'[c].api = Top(c).api
         /\ result'[c].kind = "ApiResponse"
         /\ result'[c].payload = Top(c).rx.payload
         /\ temp_token' = temp_token /\ token' = token /\ user_id' = user_id]_vars

\* check_code got an error payload that carries a token: the temp_token
\* stored by start_auth is still there and no token was stored.
C4_Witness ==
  \E c \in Callers :
    /\ result[c].api = "check_code" /\ result[c].kind = "ApiResponse"
    /\ result[c].payload = ErrPayload
    /\ stack[c] = <<>>
    /\ temp_token = "T0" /\ token = NoTok /\ user_id = 0

\* C5: the reader ending on end-of-stream or a failed read clears the
\* writer, empties pending and hands ConnectionClosed to every receiver
\* that still waits on a slot, all in the same step.
Registered(t, d) ==
  /\ RxOpen(stack[t][d])
  /\ \E e \in pending : e.task = t /\ e.depth = d /\ e.seq = stack[t][d].seq

C5_ReaderEndDrainsPending ==
  [][\A k \in 1..Len(conn) :
       (conn[k].reader = "run" /\ conn'[k].reader = "closed") =>
         /\ writer' = 0
         /\ pending' = {}
         /\ \A t \in Tasks : \A d \in FramesOf(t) :
              Registered(t, d) => stack'[t][d].rx = R("ConnectionClosed", NoPayload)]_vars

\* Two calls were waiting when the reader saw the end of the stream: both
\* hold ConnectionClosed, the writer is gone and pending is empty.
C5_Witness ==
  /\ writer = 0 /\ pending = {}
  /\ conn[1].reader = "closed"
  /\ \A c \in Callers : AtPc(c, "wait") /\ Top(c).rx.kind = "ConnectionClosed"

\* C6: a call that found no writer and reconnected goes on to write its own
\* frame only when the handshake of the connection it made has returned a
\* response without error; while that connection is the only one made since
\* the loss, a frame so written sits on its wire after its handshake frame.
OnWireAfterHandshake(f, cn) ==
  \E k \in 2..Len(cn) : \E i, j \in 1..Len(cn[k].wire) :
    /\ i < j
    /\ cn[k].wire[i].op = HANDSHAKE
    /\ cn[k].wire[j].op = f.op /\ cn[k].wire[j].seq = WireSeq(f.seq, cn[k].mobile)

C6_ReconnectHandshakeThenWrite ==
  [][\A t \in Tasks :
       /\ (/\ Len(stack[t]) >= 2
           /\ Len(stack'[t]) = Len(stack[t]) - 1
           /\ stack'[t][Len(stack'[t])].pc = "write") =>
            /\ Top(t).api = "handshake" /\ Top(t).pc = "wait"
            /\ Top(t).rx.kind = "Ok" /\ ~Top(t).rx.payload.error
            /\ stack[t][Len(stack[t]) - 1].pc = "child"
       /\ \A d \in 1..Len(stack'[t]) :
            (stack'[t][d].nest >= 1 /\ stack'[t][d].pc = "wait"
               /\ stack'[t][d].api # "handshake" /\ Len(conn') = 2)
              => OnWireAfterHandshake(stack'[t][d], conn')]_vars

\* After the lost connection a fetch reconnected once, the handshake went
\* out first on connection 2, then the fetch, and the fetch has its response.
C6_Witness ==
  /\ result[<<"caller", 1>>].api = "fetch_history"
  /\ result[<<"caller", 1>>].kind = "Ok"
  /\ Len(conn) = 2 /\ writer = 2
  /\ Len(conn[2].wire) = 2
  /\ conn[2].wire[1].op = HANDSHAKE /\ conn[2].wire[1].seq = 4
  /\ conn[2].wire[2].op = Opcode("fetch_history") /\ conn[2].wire[2].seq = 3

\* C7: no send_and_wait call has more than one transport established
\* inside it.
C7_AtMostOneConnectPerCall ==
  \A t \in Tasks : \A d \in FramesOf(t) : stack[t][d].nest <= 1

\* C8: no reader task has ended on a frame that failed to decode: such a
\* frame leaves the reader running, the writer installed and the pending
\* requests as they were.
C8_DecodeFailureKeepsSession ==
  \A k \in 1..Len(conn) : conn[k].reader # "decode"

\* C9: a call that finds no writer and no stored ids returns
\* ConnectionFailed (Device ID not set); a call returns NotConnected only
\* from the write of send_frame, when the writer is absent there.
NeverConnected == writer = 0 /\ device_id = NoTok /\ mt_instance = NoTok

C9_NoIdsConnectionFailed ==
  [][\A c \in Callers :
       /\ (AtPc(c, "check") /\ NeverConnected /\ Returns(c)) =>
            /\ stack'[c] = <<>>
            /\ result'[c].kind = "ConnectionFailed"
       /\ (Returns(c) /\ stack'[c] = <<>> /\ result'[c].kind = "NotConnected") =>
            AtPc(c, "write") /\ writer = 0]_vars

\* A fetch on a client that never connected came back with ConnectionFailed.
C9_Witness ==
  /\ conn = <<>> /\ NeverConnected
  /\ result[<<"caller", 1>>].api = "fetch_history"
  /\ result[<<"caller", 1>>].kind = "ConnectionFailed"

\* C9 as claimed: a call that finds no writer and no stored ids returns
\* NotConnected.
C9_Claimed ==
  [][\A c \in Callers :
       (AtPc(c, "check") /\ NeverConnected /\ Returns(c)) =>
         result'[c].kind = "NotConnected"]_vars

\* C10: sync returning leaves user_id as it was, whatever the response
\* carries; user_id changes only by set_user_id (to the caller's value) and
\* by disconnect (to None).
SyncReturns(c) ==
  /\ AtPc(c, "wait") /\ Len(stack[c]) = 1 /\ Top(c).api = "sync"
  /\ stack'[c] = <<>>

C10_SyncLeavesUserId ==
  [][/\ \A c \in Callers : SyncReturns(c) => user_id' = user_id
     /\ user_id' # user_id =>
          \/ \E c \in Callers : result'[c].api = "set_user_id" /\ stack[c] = <<>>
          \/ epoch' = epoch + 1 /\ user_id' = 0]_vars

\* sync returned Ok with profile.contact.id = 42 and user_id is still None.
C10_Witness ==
  \E c \in Callers :
    /\ result[c].api = "sync" /\ result[c].kind = "Ok"
    /\ result[c].payload.uid = 42
    /\ token = "T1" /\ user_id = 0

\* C10 as claimed: when sync returns Ok with profile.contact.id = N,
\* user_id is N.
C10_Claimed ==
  [][\A c \in Callers :
       (SyncReturns(c) /\ result'[c].kind = "Ok") =>
         user_id' = result'[c].payload.uid]_vars

\* The tail of an auth call (its stores after Ok(resp)) runs in this step.
PostStep(c, api) ==
  AtPc(c, "post") /\ Top(c).api = api /\ stack'[c] = <<>>

\* C11: check_code, given a response with a token, stores it as temp_token
\* (token untouched) when tokenType is "REGISTER" and as token (temp_token
\* untouched) in every other case, tokenType absent included, and does not
\* panic.
C11_CheckCodeTokenRouting ==
  [][\A c \in Callers :
       PostStep(c, "check_code") =>
         LET p == Top(c).rx.payload IN
         /\ IF p.tokenType = "REGISTER"
            THEN temp_token' = p.token /\ token' = token
            ELSE token' = p.token /\ temp_token' = temp_token
         /\ result'[c].kind # "Panic"]_vars

\* C12: start_auth, given a response with token T, stores T as temp_token
\* and leaves token; a check_code call puts the temp_token of that moment
\* in its payload, and that is what goes on the wire.
C12_StartAuthFeedsCheckCode ==
  [][\A c \in Callers :
       /\ PostStep(c, "start_auth") =>
            /\ temp_token' = Top(c).rx.payload.token
            /\ token' = token
            /\ result'[c].kind = "Ok"
       /\ (stack[c] = <<>> /\ stack'[c] # <<>> /\ stack'[c][1].api = "check_code") =>
            stack'[c][1].tok = temp_token /\ temp_token # NoTok
       /\ (AtPc(c, "write") /\ Top(c).api = "check_code" /\ writer # 0
             /\ stack'[c] # <<>> /\ stack'[c][Len(stack'[c])].pc = "wait"
             /\ Len(conn'[writer].wire) > Len(conn[writer].wire)) =>
            conn'[writer].wire[Len(conn'[writer].wire)].tok = Top(c).tok]_vars

\* start_auth stored T0 and the check_code frame on the wire carries T0.
C12_Witness ==
  /\ temp_token = "T0" /\ token = NoTok
  /\ \E i \in 1..Len(conn[1].wire) :
       conn[1].wire[i].op = Opcode("check_code") /\ conn[1].wire[i].tok = "T0"

\* C13: a disconnect() leaves no writer, seq 0, no user_id, no token and no
\* temp_token, and keeps device_id and mt_instance.
C13_DisconnectResets ==
  [][epoch' = epoch + 1 =>
       /\ writer' = 0 /\ seq' = 0 /\ user_id' = 0
       /\ token' = NoTok /\ temp_token' = NoTok
       /\ device_id' = device_id /\ mt_instance' = mt_instance]_vars

\* C14: a keepalive task is never inside connect: it establishes no
\* transport and issues no handshake.
C14_KeepaliveNeverConnects ==
  \A p \in Pings : \A d \in FramesOf(p) :
    /\ stack[p][d].pc \notin {"connect", "child"}
    /\ stack[p][d].api # "handshake"
    /\ stack[p][d].nest = 0

\* A background task that is running and whose shutdown_rx.recv() is not
\* ready: nothing was sent on its channel and the Sender is still stored.
Unsignalled ==
  \/ \E k \in 1..Len(conn) :
       (conn[k].reader = "run" \/ conn[k].ping = "run") /\ ~ShutdownSeen(k)
  \/ \E i \in 1..MaxTel :
       tel[i].pc \notin {"none", "done"} /\ ~TelShutdownSeen(i)

\* C15: once disconnect() has fired the shutdown signal and the caller has
\* not called connect again, every reader, keepalive and telemetry task that
\* still runs has the signal waiting at its next suspension point, so that
\* eventually none runs: no background task runs without the signal.
C15_ShutdownReachesEveryTask == epoch >= 1 => ~Unsignalled

\* The COLD_START events among the events telemetry task i has emitted.
ColdStarts(i) == {j \in 1..Len(tel[i].log) : tel[i].log[j].event = "COLD_START"}

\* C16 as stated: a telemetry task whose lifetime is over has emitted
\* exactly one COLD_START event, and has emitted it before any NAV event.
C16_Claimed ==
  \A i \in 1..MaxTel :
    tel[i].pc = "done" => ColdStarts(i) = {1}

\* C16: a telemetry task emits at most one COLD_START event, as its first
\* event and so before every NAV event; a task in its steady loop on a
\* session that was never disconnected has emitted it.
C16_OneColdStartFirst ==
  \A i \in 1..MaxTel :
    /\ ColdStarts(i) = {1} \cap (1..Len(tel[i].log))
    /\ (epoch = 0 /\ tel[i].pc \in {"sleeping", "nav"}) => ColdStarts(i) = {1}

\* A task whose lifetime is over emitted COLD_START and then NAV.
C16_Witness ==
  \E i \in 1..MaxTel :
    /\ tel[i].pc = "done"
    /\ Len(tel[i].log) = 2
    /\ tel[i].log[1].event = "COLD_START" /\ tel[i].log[2].event = "NAV"

\* C17: in the events a telemetry task has emitted, the COLD_START event
\* has screen_to = id("chats_list_tab") and every later NAV event has
\* screen_from equal to the screen_to of the event emitted just before it,
\* also for a task spawned after earlier telemetry activity.
C17_NavChainsFromColdStart ==
  \A i \in 1..MaxTel :
    \A j \in 1..Len(tel[i].log) :
      LET e == tel[i].log[j] IN
      /\ e.event = "COLD_START" => e.screen_to = get_screen_id("chats_list_tab")
      /\ (e.event = "NAV" /\ j > 1) => e.screen_from = tel[i].log[j - 1].screen_to

\* C18: for a request with ver and cmd in 0..255, any seq, opcode in
\* 0..65535 and an encoded payload of L <= 0xFFFFFF bytes, MobileWriter::send
\* writes a 10-byte header, and parsing it yields the same ver, cmd and
\* opcode, seq mod 256, payload_len = L and comp_flag = 0.
C18_HeaderRoundTrip ==
  /\ (codec.job = "request" /\ codec.stage = "sent" /\ codec.len <= 16777215) =>
       codec.out.kind = "Ok" /\ Len(codec.out.header) = 10
  /\ (codec.job = "request" /\ codec.stage = "parsed") =>
       /\ codec.parsed.ver = codec.req.ver
       /\ codec.parsed.cmd = codec.req.cmd
       /\ codec.parsed.opcode = codec.req.opcode
       /\ codec.parsed.seq = codec.req.seq % 256
       /\ codec.parsed.payload_len = codec.len
       /\ codec.parsed.comp_flag = 0

\* A header was parsed back for a seq beyond 8 bits, a two-byte opcode and
\* the largest payload.
C18_Witness ==
  /\ codec.job = "request" /\ codec.stage = "parsed"
  /\ codec.req.seq = 257 /\ codec.req.opcode = 256 /\ codec.req.cmd = 255
  /\ codec.len = 16777215

\* C19: an inbound mobile frame whose header has payload_len = 0 decodes
\* to a Response with a null payload and the header's ver, cmd (as u8), seq
\* and opcode, whatever comp_flag is, and no payload byte is read or
\* decompressed.
C19_EmptyPayloadIsNull ==
  (/\ codec.job = "frame" /\ codec.stage = "decoded"
   /\ codec.header[8] = 0 /\ codec.header[9] = 0 /\ codec.header[10] = 0) =>
    /\ codec.out.kind = "Ok"
    /\ codec.out.resp = [ver |-> codec.header[1],
                         cmd |-> codec.header[3],
                         seq |-> codec.header[4],
                         opcode |-> codec.header[5] * 256 + codec.header[6],
                         payload |-> "null"]
    /\ codec.out.read = 0
    /\ ~codec.out.decompressed

\* A frame with payload_len = 0 and the compression flag set was decoded
\* while payload bytes were waiting on the stream.
C19_Witness ==
  /\ codec.job = "frame" /\ codec.stage = "decoded"
  /\ codec.header[7] = 255 /\ codec.header[10] = 0
  /\ codec.body.avail = 2
  /\ codec.out.kind = "Ok"

\* C20: the mobile decoder maps a MessagePack integer n to the JSON number
\* n when |n| <= 2^53-1 and to the decimal string of n when |n| > 2^53-1,
\* for positive and negative n alike.
C20_SafeIntegerOrString ==
  (codec.job = "integer" /\ codec.stage = "json") =>
    IF Gt(codec.n.mag, <<511, 4194303, 4194303>>)
    THEN /\ codec.out.type = "string"
         /\ codec.out.str.neg = codec.n.neg
         /\ codec.out.str.digits[1] # 0
         /\ FromDigits(codec.out.str.digits) = codec.n.mag
    ELSE codec.out = [type |-> "number", neg |-> codec.n.neg, mag |-> codec.n.mag]

\* -(2^53) was decoded to the string "-9007199254740992".
C20_Witness ==
  /\ codec.job = "integer" /\ codec.stage = "json"
  /\ codec.n = [neg |-> TRUE, mag |-> <<512, 0, 0>>]
  /\ codec.out.type = "string"
  /\ codec.out.str.digits = <<9, 0, 0, 7, 1, 9, 9, 2, 5, 4, 7, 4, 0, 9, 9, 2>>

\* C21: an inbound web frame whose JSON record has every field but cmd is
\* accepted and decodes to a Response with cmd = 0.
C21_MissingCmdIsZero ==
  (/\ codec.job = "web" /\ codec.stage = "decoded"
   /\ codec.frame.some /\ codec.frame.json
   /\ codec.frame.present = {"ver", "seq", "opcode", "payload"}) =>
    codec.out.kind = "Some" /\ codec.out.resp.cmd = 0

\* The send_and_wait call that inserted pending entry e has not returned.
Awaited(e) ==
  /\ Len(stack[e.task]) >= e.depth
  /\ stack[e.task][e.depth].seq = e.seq
  /\ stack[e.task][e.depth].pc \in {"check", "connect", "child", "write", "wait", "timedout"}

\* C22: pending holds an entry for seq s only while the send_and_wait call
\* for s has not returned: once it has returned by any path (response,
\* error, failed send, failed reconnect, timeout) no entry for s is left.
C22_NoStalePending == \A e \in pending : Awaited(e)

\* The reader of connection k takes the frame answering wire position i in
\* this step.
Handles(k, i) ==
  /\ k \in 1..Len(conn')
  /\ conn[k].reader = "run" /\ conn'[k].reader = "run"
  /\ conn'[k].unans = conn[k].unans \ {i}

\* C23: for each inbound frame the reader removes the slot keyed by the
\* frame's seq; if there was one, the call that owns it, and no other,
\* receives the frame and the frame is not published; if there was none,
\* the frame is published on the events channel.
C23_ReaderDispatch ==
  [][\A k \in 1..Len(conn) : \A i \in conn[k].unans :
       Handles(k, i) =>
         LET s == conn[k].wire[i].seq
             hit == {e \in pending : e.seq = s}
         IN /\ pending' = pending \ hit
            /\ IF hit # {}
               THEN /\ events' = events
                    /\ \A t \in Tasks : \A d \in 1..Len(stack[t]) :
                         IF \E e \in hit : e.task = t /\ e.depth = d
                         THEN /\ stack'[t][d].rx.kind = "Ok"
                              /\ stack'[t][d].seq = s
                         ELSE stack'[t][d] = stack[t][d]
               ELSE /\ events' = events \cup {[conn |-> k, seq |-> s]}
                    /\ stack' = stack]_vars

\* C24: on the mobile transport a response frame echoing the low 8 bits of
\* a request's seq completes that request's pending slot, also when the
\* assigned seq exceeds 255.
C24_LowBitsComplete ==
  [][\A k \in 1..Len(conn) : \A i \in conn[k].unans :
       (Handles(k, i) /\ conn[k].mobile) =>
         \A e \in pending :
           (/\ Awaited(e)
            /\ stack[e.task][e.depth].pc = "wait"
            /\ stack[e.task][e.depth].rx = Empty
            /\ stack[e.task][e.depth].ep = conn[k].wire[i].ep
            /\ e.seq % 256 = conn[k].wire[i].seq) =>
             /\ e \notin pending'
             /\ stack'[e.task][e.depth].rx.kind = "Ok"]_vars

\* C25: on every connection (explicit connect or lazy reconnect) the first
\* frame written is the handshake (opcode 6); no ping and no request of
\* another caller is written before it.
C25_HandshakeFirst ==
  \A k \in 1..Len(conn) : conn[k].wire # <<>> => conn[k].wire[1].op = 6

\* C26: at every moment at most one reader task and at most one keepalive
\* task of the client are alive, across explicit connects, repeated connects
\* without disconnect and lazy reconnects.
C26_OneReaderOneKeepalive ==
  /\ Cardinality({k \in 1..Len(conn) : conn[k].reader = "run"}) <= 1
  /\ Cardinality({k \in 1..Len(conn) : conn[k].ping = "run"}) <= 1

\* C27: at every moment at most one telemetry task of the client is alive,
\* also when spawn_telemetry_task is called more than once.
C27_OneTelemetryTask ==
  Cardinality({i \in 1..MaxTel : tel[i].pc \notin {"none", "done"}}) <= 1

\* C28: the writer is used only by the task that holds the session lock,
\* so no two frame writes overlap: on the transport each frame's parts are
\* adjacent, whatever the interleaving of callers, keepalive and telemetry.
C28_WritesDoNotOverlap ==
  codec.job = "writes" =>
    /\ \A s \in Senders : codec.pc[s] = "sending" => codec.lock = s
    /\ \A j \in 1..Len(codec.stream) :
         /\ codec.stream[j].part = "tail" =>
              j > 1 /\ codec.stream[j - 1] = [by |-> codec.stream[j].by, part |-> "head"]
         /\ (codec.stream[j].part = "head" /\ j < Len(codec.stream)) =>
              codec.stream[j + 1] = [by |-> codec.stream[j].by, part |-> "tail"]

\* Two tasks were both inside send_frame, one writing and one waiting for
\* the lock, and both frames are on the transport.
C28_Witness ==
  /\ codec.job = "writes"
  /\ Len(codec.stream) >= 4
  /\ codec.stream[1].by # codec.stream[3].by
  /\ \E s \in Senders : codec.pc[s] = "sending"
  /\ \E s \in Senders : codec.pc[s] = "start"

\* The send_and_wait calls that have been assigned a seq and not returned.
Assigned ==
  UNION {{<<t, d>> : d \in {n \in 1..Len(stack[t]) : stack[t][n].pc # "alloc"}} : t \in Tasks}

\* Task t's send_and_wait at depth d is assigned its seq in this step.
Assigns(t, d) ==
  /\ d <= Len(stack'[t]) /\ stack'[t][d].pc # "alloc"
  /\ d > Len(stack[t]) \/ stack[t][d].pc = "alloc"

\* C29: every key in pending is at most seq; between two disconnects seq
\* only increases, by exactly 1 per send_and_wait call, so the calls of a
\* session get different seqs and no pending slot is overwritten by a later
\* request.
C29_SeqAllocation ==
  [][/\ \A e \in pending' : e.seq <= seq'
     /\ epoch' = epoch => seq' \in {seq, seq + 1}
     /\ \A t \in Tasks : \A d \in 1..Len(stack'[t]) :
          Assigns(t, d) =>
            /\ seq' = seq + 1
            /\ stack'[t][d].seq = seq'
            /\ \A e \in pending : e.seq # seq'
            /\ pending' = pending \cup {[seq |-> seq', task |-> t, depth |-> d]}
            /\ \A x \in Assigned :
                 stack[x[1]][x[2]].ep = epoch => stack[x[1]][x[2]].seq # seq']_vars

\* After a disconnect two calls of the new session wait with different
\* seqs.
C29_Witness ==
  /\ epoch = 1
  /\ \E e1, e2 \in pending : e1.seq # e2.seq /\ Awaited(e1) /\ Awaited(e2)

\* The frame written to connection k in this step, if any.
Written(k) ==
  IF k <= Len(conn) /\ Len(conn'[k].wire) > Len(conn[k].wire)
  THEN {conn'[k].wire[Len(conn'[k].wire)]}
  ELSE {}

\* C30: the durable session token goes on the wire only in sync frames
\* (opcode 19): handshake, ping and telemetry frames carry no token, also
\* the handshake of a lazy reconnect made after the token was set.
C30_TokenOnlyInSync ==
  [][\A k \in 1..Len(conn') : \A f \in Written(k) :
       /\ f.op \in {6, 1, 5} => f.tok = NoTok
       /\ (token # NoTok /\ f.tok = token) => f.op = 19]_vars

\* With the token set, a lazy reconnect wrote its handshake and the sync
\* frame carrying the token to the new connection.
C30_Witness ==
  /\ token = "T1" /\ Len(conn) = 2
  /\ \E i, j \in 1..Len(conn[2].wire) :
       /\ conn[2].wire[i].op = 6 /\ conn[2].wire[i].tok = NoTok
       /\ conn[2].wire[j].op = 19 /\ conn[2].wire[j].tok = "T1"

\* C31: the frame submit_register sends (opcode 23) carries the current
\* temp_token, as the frame of check_code (opcode 18) does.
C31_RegisterCarriesTempToken ==
  [][\A k \in 1..Len(conn') : \A f \in Written(k) :
       (f.op \in {18, 23} /\ temp_token # NoTok) => f.tok = temp_token]_vars

\* C32: once disconnect() has returned, the client stays disconnected until
\* a caller connects or issues a request: while disconnect is the last thing
\* that touched the connection (no shutdown channel installed since), no
\* keepalive or telemetry task establishes a connection.
C32_StaysDisconnected ==
  [][(epoch >= 1 /\ shutdown_tx = NoChan /\ Len(conn') > Len(conn)) =>
       \A t \in Tasks : stack'[t] # stack[t] => t \in Callers]_vars

\* The send_and_wait calls whose receiver gets a frame in this step.
Delivered ==
  {x \in UNION {{<<t, d>> : d \in 1..Len(stack[t])} : t \in Tasks} :
     /\ x[2] <= Len(stack'[x[1]])
     /\ stack[x[1]][x[2]].rx = Empty
     /\ stack'[x[1]][x[2]].rx.kind = "Ok"}

\* C33: every frame the reader takes reaches exactly one destination: the
\* receiver of one waiting call, or the events channel; none is dropped,
\* also when the response arrives as its caller's timeout fires.
C33_ExactlyOneDestination ==
  [][\A k \in 1..Len(conn) : \A i \in conn[k].unans :
       Handles(k, i) =>
         \/ Cardinality(Delivered) = 1 /\ events' = events
         \/ Delivered = {} /\ events' # events]_vars

\* Task t writes the frame of its innermost send_and_wait in this step.
Transmits(t) ==
  /\ AtPc(t, "write")
  /\ Len(stack'[t]) = Len(stack[t])
  /\ stack'[t][Len(stack'[t])].pc = "wait"
  /\ writer # 0
  /\ Len(conn'[writer].wire) = Len(conn[writer].wire) + 1

\* C34: a request frame is written only while its pending slot is still
\* registered: a request whose slot was drained by the reader or cleared by
\* disconnect after its seq was allocated is not transmitted later.
C34_WrittenWhileRegistered ==
  [][\A t \in Tasks :
       Transmits(t) =>
         [seq |-> Top(t).seq, task |-> t, depth |-> Len(stack[t])] \in pending]_vars

\* Caller c's connect returns an error in this step.
ConnectFails(c) ==
  /\ stack[c] # <<>> /\ stack[c][1].api = "connect"
  /\ stack'[c] = <<>>
  /\ result'[c].api = "connect" /\ result'[c].kind # "Ok"

\* C35: when connect on a disconnected client returns an error, the client
\* is not connected afterwards and neither the reader nor the keepalive of
\* that attempt (here the only connection there has been) keeps running.
C35_FailedConnectLeavesNothing ==
  [][\A c \in Callers :
       (ConnectFails(c) /\ Len(conn') = 1) =>
         /\ writer' = 0
         /\ conn'[1].reader # "run"
         /\ conn'[1].ping # "run"]_vars

\* The reader of connection k leaves its loop in this step on the end of
\* the stream or a read error, while a newer connection's writer is
\* installed.
StaleReaderEnds(k) ==
  /\ conn[k].reader = "run"
  /\ conn'[k].reader \in {"closed", "decode"}
  /\ writer > k

\* The pending entries whose request is on the wire of connection k.
SentOn(k) ==
  {e \in pending :
     /\ Awaited(e)
     /\ stack[e.task][e.depth].pc = "wait"
     /\ \E i \in 1..Len(conn[k].wire) :
          /\ conn[k].wire[i].seq = WireSeq(e.seq, conn[k].mobile)
          /\ conn[k].wire[i].ep = stack[e.task][e.depth].ep
          /\ conn[k].wire[i].op = stack[e.task][e.depth].op}

\* C36: a reader that sees end-of-stream or an I/O error on its own
\* connection after a newer connection was installed neither clears the
\* newer writer nor fails the requests sent on the newer connection.
C36_StaleReaderHarmless ==
  [][\A k \in 1..Len(conn) :
       StaleReaderEnds(k) =>
         /\ writer' = writer
         /\ \A e \in SentOn(writer) :
              /\ e \in pending'
              /\ stack'[e.task][e.depth].rx = stack[e.task][e.depth].rx]_vars

\* Caller c starts check_code or sync in this step.
StartsTokenCall(c) ==
  /\ stack[c] = <<>>
  /\ budget'.ops = budget.ops - 1
  /\ \/ stack'[c] # <<>> /\ stack'[c][1].api \in {"check_code", "sync"}
     \/ /\ stack'[c] = <<>> /\ result'[c] # result[c]
        /\ result'[c].api \in {"check_code", "sync"}

\* C37: check_code with temp_token absent and sync with token absent return
\* an error without allocating a seq, registering a pending slot,
\* reconnecting or writing a frame, and leave the session state unchanged;
\* with the token present they enter send_and_wait carrying it.
C37_MissingTokenIsInert ==
  [][\A c \in Callers :
       StartsTokenCall(c) =>
         IF stack'[c] = <<>>
         THEN /\ PayloadToken(result'[c].api) = NoTok
              /\ result'[c].kind = "Other"
              /\ state_fields' = state_fields
              /\ conn' = conn /\ events' = events
              /\ stack' = stack
         ELSE /\ PayloadToken(stack'[c][1].api) # NoTok
              /\ stack'[c][1].tok = PayloadToken(stack'[c][1].api)]_vars

\* check_code returned Other on a session without temp_token: seq is still
\* the handshake's, nothing is pending, the wire holds the handshake only.
C37_Witness ==
  /\ result[<<"caller", 1>>].api = "check_code"
  /\ result[<<"caller", 1>>].kind = "Other"
  /\ temp_token = NoTok /\ token = "T1"
  /\ seq = 1 /\ pending = {} /\ writer = 1
  /\ Len(conn) = 1 /\ Len(conn[1].wire) = 1

\* C38: no interleaving of the tasks deadlocks on the two locks: no task
\* waits for the session lock while it holds the pending lock, and, transport
\* I/O completing, every task waiting for the session lock gets it.
C38_NoLockDeadlock ==
  /\ [](codec.job = "locks" =>
          \A t \in LockTasks : ~(codec.pend = t /\ codec.st[t].phase = "queued"))
  /\ \A t \in LockTasks :
       (codec.job = "locks" /\ codec.st[t].phase = "queued") ~> (codec.session = t)

\* The reader holds the pending lock while one task writes under the
\* session lock and two more wait in its queue.
C38_Witness ==
  /\ codec.job = "locks"
  /\ codec.pend = "reader"
  /\ codec.session # "free" /\ codec.st[codec.session].phase = "io"
  /\ Len(codec.queue) >= 2

====
